---- MODULE Spec2Model ----
(***************************************************************************)
(* Model of the country-music recommender (grule-exploration).             *)
(*                                                                         *)
(* src/unnamed/part_000 lines 1-405 is the full recommender: it decodes    *)
(* the user's theme selections, compiles one grule rule per catalog        *)
(* document, runs the rule engine, keeps the top 3 scored documents and    *)
(* blanks the themes the user did not select.  src/country.go is an        *)
(* earlier revision of the same lambda: same decoder, compiler and engine  *)
(* run, but its SetRecommendations stores the unscaled match count and it  *)
(* returns every document.                                                 *)
(*                                                                         *)
(* Go strings whose characters the code inspects (theme keys, struct field *)
(* names, JSON keys) are sequences of one-character strings, so that       *)
(* capitalizeFirstLetter and strings.ToLower are computed, not assumed.    *)
(***************************************************************************)
EXTENDS Integers, Sequences, FiniteSets, TLC

VARIABLES
    program,    \* which lambda runs: "part_000" or "country"
    catalog,    \* the documents the DynamoDB scan returned (read-only)
    incoming,   \* per request: the JSON keys of IncomingRequest.Themes set to true
    pc,         \* per request: position in handleRequest
    us,         \* per request: its UserSelections record
    rules,      \* per request: the rules extractGrules produced, in order
    retracted,  \* per request: RuleIDs whose rule was retracted
    writes,     \* per request: RuleID -> number of stores into Recommendations
    topRuleIDs, \* per request: result of getTopNRecommendations
    filtered,   \* per request: result of filterDocuments
    out,        \* per request: the documents handleRequest returns
    arg,        \* harness input of the pure-function specifications
    res         \* harness output of the pure-function specifications

vars == <<program, catalog, incoming, pc, us, rules, retracted, writes, topRuleIDs,
          filtered, out, arg, res>>

(***************************************************************************)
(* Bounds of the model.                                                    *)
(***************************************************************************)
MaxDocs == 2
MaxThemes == 2
NReq == 2
MaxN == 4
MaxScored == 3
MaxRedactDocs == 1
MaxConcDocs == 2

Requests == 1 .. NReq

(***************************************************************************)
(* Characters and strings.                                                 *)
(***************************************************************************)
LowerAlpha ==
    <<"a","b","c","d","e","f","g","h","i","j","k","l","m",
      "n","o","p","q","r","s","t","u","v","w","x","y","z">>

UpperAlpha ==
    <<"A","B","C","D","E","F","G","H","I","J","K","L","M",
      "N","O","P","Q","R","S","T","U","V","W","X","Y","Z">>

ToUpperChar(c) ==
    IF \E i \in 1 .. Len(LowerAlpha) : LowerAlpha[i] = c
    THEN UpperAlpha[CHOOSE i \in 1 .. Len(LowerAlpha) : LowerAlpha[i] = c]
    ELSE c

ToLowerChar(c) ==
    IF \E i \in 1 .. Len(UpperAlpha) : UpperAlpha[i] = c
    THEN LowerAlpha[CHOOSE i \in 1 .. Len(UpperAlpha) : UpperAlpha[i] = c]
    ELSE c

\* strings.ToLower
ToLower(s) == [i \in 1 .. Len(s) |-> ToLowerChar(s[i])]

\* capitalizeFirstLetter: strings.ToUpper(s[:1]) + s[1:]
capitalizeFirstLetter(s) ==
    IF Len(s) = 0 THEN s
    ELSE <<ToUpperChar(s[1])>> \o SubSeq(s, 2, Len(s))

(***************************************************************************)
(* The UserSelections struct: ten boolean fields and Recommendations.      *)
(***************************************************************************)
F_Adventure == <<"A","d","v","e","n","t","u","r","e">>
F_America == <<"A","m","e","r","i","c","a">>
F_CarsTrucksTractors ==
    <<"C","a","r","s","T","r","u","c","k","s","T","r","a","c","t","o","r","s">>
F_Goodtimes == <<"G","o","o","d","t","i","m","e","s">>
F_Grit == <<"G","r","i","t">>
F_Home == <<"H","o","m","e">>
F_Love == <<"L","o","v","e">>
F_HeartBreak == <<"H","e","a","r","t","B","r","e","a","k">>
F_Lessons == <<"L","e","s","s","o","n","s">>
F_Rebellion == <<"R","e","b","e","l","l","i","o","n">>
F_Recommendations ==
    <<"R","e","c","o","m","m","e","n","d","a","t","i","o","n","s">>

BoolFields ==
    {F_Adventure, F_America, F_CarsTrucksTractors, F_Goodtimes, F_Grit,
     F_Home, F_Love, F_HeartBreak, F_Lessons, F_Rebellion}

\* The JSON keys getUserSelections reads, as written in the source.
J_adventure == <<"a","d","v","e","n","t","u","r","e">>
J_america == <<"a","m","e","r","i","c","a">>
J_carsTrucksTractors ==
    <<"c","a","r","s","T","r","u","c","k","s","T","r","a","c","t","o","r","s">>
J_goodtimes == <<"g","o","o","d","t","i","m","e","s">>
J_grit == <<"g","r","i","t">>
J_home == <<"h","o","m","e">>
J_love == <<"l","o","v","e">>
J_heartbreak == <<"h","e","a","r","t","b","r","e","a","k">>
J_lessons == <<"l","e","s","s","o","n","s">>
J_rebellion == <<"r","e","b","e","l","l","i","o","n">>

\* A theme key outside the vocabulary.
K_nostalgia == <<"n","o","s","t","a","l","g","i","a">>

EmptyMap == <<>>

\* getUserSelections: each field is incoming.Themes[<its JSON key>]; a key
\* that is missing from the map reads false; Recommendations starts empty.
getUserSelections(inc) ==
    [Adventure |-> J_adventure \in inc,
     America |-> J_america \in inc,
     CarsTrucksTractors |-> J_carsTrucksTractors \in inc,
     Goodtimes |-> J_goodtimes \in inc,
     Grit |-> J_grit \in inc,
     Home |-> J_home \in inc,
     Love |-> J_love \in inc,
     HeartBreak |-> J_heartbreak \in inc,
     Lessons |-> J_lessons \in inc,
     Rebellion |-> J_rebellion \in inc,
     Recommendations |-> EmptyMap]

\* reflect: the value of the boolean field with exactly this name.
BoolField(p, fieldName) ==
    CASE fieldName = F_Adventure -> p.Adventure
      [] fieldName = F_America -> p.America
      [] fieldName = F_CarsTrucksTractors -> p.CarsTrucksTractors
      [] fieldName = F_Goodtimes -> p.Goodtimes
      [] fieldName = F_Grit -> p.Grit
      [] fieldName = F_Home -> p.Home
      [] fieldName = F_Love -> p.Love
      [] fieldName = F_HeartBreak -> p.HeartBreak
      [] fieldName = F_Lessons -> p.Lessons
      [] fieldName = F_Rebellion -> p.Rebellion

\* GetField: reflection by exact field name; an error for a name that is
\* no field, and for the one field that is not a boolean.
GetField(p, fieldName) ==
    IF fieldName \in BoolFields
    THEN [err |-> "", val |-> BoolField(p, fieldName)]
    ELSE IF fieldName = F_Recommendations
    THEN [err |-> "is not a boolean", val |-> FALSE]
    ELSE [err |-> "does not exist", val |-> FALSE]

\* Mutant: the loop returns after its first theme.
IsSongThemeMatch_FirstOnly(p, songThemes) ==
    IF Len(songThemes) = 0 THEN "false"
    ELSE LET g == GetField(p, Head(songThemes))
         IN  IF g.err # "" THEN "panic"
             ELSE IF g.val THEN "true"
             ELSE "false"

\* IsSongThemeMatch: "true" at the first selected theme, "panic" at a theme
\* GetField rejects before that, "false" when the list is exhausted.
RECURSIVE IsSongThemeMatch(_, _)
IsSongThemeMatch(p, songThemes) ==
    IF Len(songThemes) = 0 THEN "false"
    ELSE LET g == GetField(p, Head(songThemes))
         IN  IF g.err # "" THEN "panic"
             ELSE IF g.val THEN "true"
             ELSE IsSongThemeMatch(p, Tail(songThemes))

\* The loop of SetRecommendations: the number of selected themes, or -1 when
\* GetField rejects a theme (the function panics).
RECURSIVE CountMatches(_, _)
CountMatches(p, songThemes) ==
    IF Len(songThemes) = 0 THEN 0
    ELSE LET g == GetField(p, Head(songThemes))
             rest == CountMatches(p, Tail(songThemes))
         IN  IF g.err # "" \/ rest < 0 THEN -1
             ELSE rest + (IF g.val THEN 1 ELSE 0)

\* Mutant: the scaling by 10 is lost.
ScorePart000_Unscaled(matchCount, themeCount) ==
    matchCount - (themeCount - matchCount)

\* part_000: matchCount = matchCount * 10; matchCount - (len - matchCount)
ScorePart000(matchCount, themeCount) ==
    (matchCount * 10) - (themeCount - (matchCount * 10))

\* country.go: the match count is stored as it is
ScoreCountry(matchCount, themeCount) == matchCount

ScoreOf(prog, matchCount, themeCount) ==
    IF prog = "country" THEN ScoreCountry(matchCount, themeCount)
    ELSE ScorePart000(matchCount, themeCount)

\* Mutant: matchCount starts from the number of scores already recorded
\* instead of 0, so a score depends on the rules that fired before.
SetRecommendations_OrderSensitive(prog, p, songId, songThemes) ==
    LET m == CountMatches(p, songThemes)
    IN  IF m < 0 THEN [panic |-> TRUE, score |-> 0, p |-> p]
        ELSE LET s == ScoreOf(prog, m + Cardinality(DOMAIN p.Recommendations),
                              Len(songThemes))
             IN  [panic |-> FALSE, score |-> s,
                  p |-> [p EXCEPT !.Recommendations =
                                      (songId :> s) @@ p.Recommendations]]

\* SetRecommendations: [panic, score, p] where p is the record afterwards.
SetRecommendations(prog, p, songId, songThemes) ==
    LET m == CountMatches(p, songThemes)
    IN  IF m < 0 THEN [panic |-> TRUE, score |-> 0, p |-> p]
        ELSE LET s == ScoreOf(prog, m, Len(songThemes))
             IN  [panic |-> FALSE, score |-> s,
                  p |-> [p EXCEPT !.Recommendations =
                                      (songId :> s) @@ p.Recommendations]]

(***************************************************************************)
(* Documents and the catalog.                                              *)
(***************************************************************************)
IdPool == <<"10000", "10001", "10002", "10003", "10004">>
TitlePool == <<"title0", "title1", "title2", "title3", "title4">>
ArtistPool == <<"artist0", "artist1", "artist2", "artist3", "artist4">>

\* Theme keys a catalog document may carry: vocabulary themes spelled as in
\* the request JSON, one spelled as the struct field, one unknown theme.
KeyPool == {J_home, J_america, J_heartbreak, F_HeartBreak, K_nostalgia}

\* Theme descriptions: absent text or some text.
Descs == {"", "x"}

\* The JSON keys a request may set to true.
InKeyPool == {J_home, J_america, J_heartbreak}

ThemeMaps ==
    UNION {[S -> Descs] : S \in {T \in SUBSET KeyPool : Cardinality(T) <= MaxThemes}}

\* extractJSONFromDocuments: the i-th scanned item as a CountryMusicDocument.
Document(i, themes) ==
    [RuleID |-> IdPool[i], Artist |-> ArtistPool[i], Title |-> TitlePool[i],
     LyricQuote |-> "lyric", VideoLink |-> "link", Themes |-> themes]

Catalogs ==
    UNION {{[i \in 1 .. n |-> Document(i, tm[i])] : tm \in [1 .. n -> ThemeMaps]}
           : n \in 0 .. MaxDocs}

Range(s) == {s[i] : i \in DOMAIN s}

\* Every order in which Go may range over a map with key set S.
Orderings(S) ==
    {o \in [1 .. Cardinality(S) -> S] : \A i, j \in DOMAIN o : i # j => o[i] # o[j]}

(***************************************************************************)
(* The rule compiler.                                                      *)
(***************************************************************************)
NonEmptyKeys(document) ==
    {k \in DOMAIN document.Themes : document.Themes[k] # ""}

\* One iteration of extractGrules: the rule text is determined by the
\* RuleID, the title and the quoted, capitalised themes with a non-empty
\* description, in map iteration order.
RulesOf(document) ==
    {[RuleID |-> document.RuleID, Title |-> document.Title,
      themes |-> [i \in DOMAIN o |-> capitalizeFirstLetter(o[i])]]
     : o \in Orderings(NonEmptyKeys(document))}

\* extractGrules: one rule per document, in catalog order.
extractGrules(documents) ==
    {rs \in [DOMAIN documents -> UNION {RulesOf(documents[i]) : i \in DOMAIN documents}]
        : \A i \in DOMAIN documents : rs[i] \in RulesOf(documents[i])}

\* ruleBuilder.BuildRuleFromResource: a rule compiled from no theme reads
\* IsSongThemeMatch("<id>", ) -- an argument list ending in a comma, which
\* the grule grammar rejects; the builder then returns an error.
BuildFails(rs) == \E i \in DOMAIN rs : Len(rs[i].themes) = 0

(***************************************************************************)
(* Selection and redaction.                                                *)
(***************************************************************************)
TopN == 3

\* Mutant: the sorted list is returned whole, N is ignored.
getTopNRecommendations_NoCut(recommendations, N) ==
    LET keys == DOMAIN recommendations
    IN  {o \in Orderings(keys) :
            \A i, j \in DOMAIN o :
               i < j => recommendations[o[i]] >= recommendations[o[j]]}

\* getTopNRecommendations: the map is ranged over in any order and sorted
\* with sort.Slice (not stable) by descending value; every descending
\* arrangement of the keys is a possible sortedList.  The result is its
\* first min(N, len) keys.
getTopNRecommendations(recommendations, N) ==
    LET keys == DOMAIN recommendations
        n == IF Cardinality(keys) < N THEN Cardinality(keys) ELSE N
        sorted == {o \in Orderings(keys) :
                     \A i, j \in DOMAIN o :
                        i < j => recommendations[o[i]] >= recommendations[o[j]]}
    IN  {SubSeq(o, 1, n) : o \in sorted}

\* filterDocuments: the documents whose RuleID is in topRuleIDs, in the
\* order of documents.
filterDocuments(documents, ids) ==
    SelectSeq(documents, LAMBDA doc : doc.RuleID \in Range(ids))

\* strings.ToLower of each boolean field's name, as the themeKeys literal
\* of generateThemeUpdatedDocs computes it.
LowerFieldName == [f \in BoolFields |-> ToLower(f)]

\* The themeKeys map of generateThemeUpdatedDocs: lower-cased field name ->
\* the field's value.
themeKeys(userSelections) ==
    [k \in {LowerFieldName[f] : f \in BoolFields} |->
        BoolField(userSelections, CHOOSE f \in BoolFields : LowerFieldName[f] = k)]

\* Mutant: the document's theme key is looked up as it is spelled.
updatedThemes_ExactKey(doc, userSelections) ==
    LET tk == themeKeys(userSelections)
    IN  [theme \in DOMAIN doc.Themes |->
            IF theme \in DOMAIN tk /\ tk[theme]
            THEN doc.Themes[theme]
            ELSE ""]

updatedThemes(doc, userSelections) ==
    LET tk == themeKeys(userSelections)
    IN  [theme \in DOMAIN doc.Themes |->
            IF ToLower(theme) \in DOMAIN tk /\ tk[ToLower(theme)]
            THEN doc.Themes[theme]
            ELSE ""]

\* Mutant: the result slice starts as the input slice and is appended to.
generateThemeUpdatedDocs_Appending(filteredDocs, userSelections) ==
    filteredDocs \o
    [i \in DOMAIN filteredDocs |->
        [filteredDocs[i] EXCEPT !.Themes = updatedThemes(filteredDocs[i], userSelections)]]

generateThemeUpdatedDocs(filteredDocs, userSelections) ==
    [i \in DOMAIN filteredDocs |->
        [RuleID |-> filteredDocs[i].RuleID,
         Artist |-> filteredDocs[i].Artist,
         Title |-> filteredDocs[i].Title,
         LyricQuote |-> filteredDocs[i].LyricQuote,
         VideoLink |-> filteredDocs[i].VideoLink,
         Themes |-> updatedThemes(filteredDocs[i], userSelections)]]

(***************************************************************************)
(* handleRequest, one action per step.  A request that is not part of a    *)
(* run stays "idle".                                                       *)
(***************************************************************************)
\* The pure-function specifications are not running.
NoHarness == [kind |-> "none"]

NoUserSelections == getUserSelections({})

Idle ==
    /\ pc = [r \in Requests |-> "idle"]
    /\ incoming = [r \in Requests |-> {}]
    /\ us = [r \in Requests |-> NoUserSelections]
    /\ rules = [r \in Requests |-> <<>>]
    /\ retracted = [r \in Requests |-> {}]
    /\ writes = [r \in Requests |-> EmptyMap]
    /\ topRuleIDs = [r \in Requests |-> <<>>]
    /\ filtered = [r \in Requests |-> <<>>]
    /\ out = [r \in Requests |-> <<>>]
    /\ program = "part_000"
    /\ catalog = <<>>

\* One request against a scanned catalog.
InitRequest(progs) ==
    /\ program \in progs
    /\ catalog \in Catalogs
    /\ incoming \in {[r \in Requests |-> IF r = 1 THEN inc ELSE {}] : inc \in SUBSET InKeyPool}
    /\ pc = [r \in Requests |-> IF r = 1 THEN "start" ELSE "idle"]
    /\ us = [r \in Requests |-> NoUserSelections]
    /\ rules = [r \in Requests |-> <<>>]
    /\ retracted = [r \in Requests |-> {}]
    /\ writes = [r \in Requests |-> EmptyMap]
    /\ topRuleIDs = [r \in Requests |-> <<>>]
    /\ filtered = [r \in Requests |-> <<>>]
    /\ out = [r \in Requests |-> <<>>]
    /\ arg = NoHarness
    /\ res = NoHarness

Init == InitRequest({"part_000"})

\* Mutant: userSelections is one package-level record shared by all calls.
UserSelectionsOf_Global(r) == 1

\* The record the local variable userSelections of call r points to:
\* getUserSelections allocates a new one in every call.
UserSelectionsOf(r) == r

\* userSelections := getUserSelections(event)
GetUserSelections(r) ==
    /\ pc[r] = "start"
    /\ us' = [us EXCEPT ![UserSelectionsOf(r)] = getUserSelections(incoming[r])]
    /\ pc' = [pc EXCEPT ![r] = "extract"]
    /\ UNCHANGED <<program, catalog, incoming, rules, retracted, writes,
                   topRuleIDs, filtered, out, arg, res>>

\* documentRules := extractGrules(documents)
ExtractGrules(r) ==
    /\ pc[r] = "extract"
    /\ \E rs \in extractGrules(catalog) : rules' = [rules EXCEPT ![r] = rs]
    /\ pc' = [pc EXCEPT ![r] = "build"]
    /\ UNCHANGED <<program, catalog, incoming, us, retracted, writes,
                   topRuleIDs, filtered, out, arg, res>>

\* err = ruleBuilder.BuildRuleFromResource(...); if err != nil { panic(err) }
BuildRules(r) ==
    /\ pc[r] = "build"
    /\ pc' = [pc EXCEPT ![r] = IF BuildFails(rules[r]) THEN "panicked" ELSE "execute"]
    /\ UNCHANGED <<program, catalog, incoming, us, rules, retracted, writes,
                   topRuleIDs, filtered, out, arg, res>>

\* One more store under songId (p.Recommendations[songId] = matchCount).
Stored(w, songId) ==
    (songId :> (IF songId \in DOMAIN w THEN w[songId] + 1 ELSE 1)) @@ w

\* Mutant: Retract has no effect on the rules the engine evaluates.
ActiveRules_IgnoringRetract(r) == DOMAIN rules[r]

\* The rules the engine still evaluates: those not retracted.
ActiveRules(r) == {i \in DOMAIN rules[r] : rules[r][i].RuleID \notin retracted[r]}

Condition(r, i) == IsSongThemeMatch(us[UserSelectionsOf(r)], rules[r][i].themes)

Runnable(r) == {i \in ActiveRules(r) : Condition(r, i) = "true"}

\* One cycle of engine.Execute: the condition of every rule not retracted
\* is evaluated; of the rules whose condition holds (all of salience 10,
\* kept in a Go map) one is executed: SetRecommendations, then Retract.
\* With no such rule Execute returns.
\* IsSongThemeMatch panics inside the engine's evaluation of a condition.
\* What the engine does with that panic is decided by the grule library,
\* which is not part of this repository: either the panic is recovered and
\* the rule counts as not eligible in this cycle, or it ends the request.
\* A panic of SetRecommendations makes Execute return an error, on which
\* handleRequest panics.
Cycle(r) ==
    /\ pc[r] = "execute"
    /\ \/ /\ \E i \in ActiveRules(r) : Condition(r, i) = "panic"
          /\ pc' = [pc EXCEPT ![r] = "panicked"]
          /\ UNCHANGED <<us, retracted, writes>>
       \/ /\ Runnable(r) = {}
          /\ pc' = [pc EXCEPT ![r] = "executed"]
          /\ UNCHANGED <<us, retracted, writes>>
       \/ \E i \in Runnable(r) :
              LET rule == rules[r][i]
                  sr == SetRecommendations(program, us[UserSelectionsOf(r)], rule.RuleID, rule.themes)
              IN  IF sr.panic
                  THEN /\ pc' = [pc EXCEPT ![r] = "panicked"]
                       /\ UNCHANGED <<us, retracted, writes>>
                  ELSE /\ us' = [us EXCEPT ![UserSelectionsOf(r)] = sr.p]
                       /\ retracted' = [retracted EXCEPT ![r] = @ \cup {rule.RuleID}]
                       /\ writes' = [writes EXCEPT ![r] = Stored(@, rule.RuleID)]
                       /\ UNCHANGED pc
    /\ UNCHANGED <<program, catalog, incoming, rules, topRuleIDs, filtered, out,
                   arg, res>>

\* part_000: userRecs := filterDocumentsByRecommendations(documents, userSelections)
FilterDocumentsByRecommendations(r) ==
    /\ pc[r] = "executed"
    /\ program = "part_000"
    /\ \E ids \in getTopNRecommendations(us[UserSelectionsOf(r)].Recommendations, TopN) :
          /\ topRuleIDs' = [topRuleIDs EXCEPT ![r] = ids]
          /\ filtered' = [filtered EXCEPT ![r] = filterDocuments(catalog, ids)]
          /\ out' = [out EXCEPT ![r] =
                        generateThemeUpdatedDocs(filterDocuments(catalog, ids), us[UserSelectionsOf(r)])]
    /\ pc' = [pc EXCEPT ![r] = "done"]
    /\ UNCHANGED <<program, catalog, incoming, us, rules, retracted, writes,
                   arg, res>>

\* country.go: responseData, err := json.Marshal(recommendations)
ReturnAll(r) ==
    /\ pc[r] = "executed"
    /\ program = "country"
    /\ out' = [out EXCEPT ![r] = catalog]
    /\ pc' = [pc EXCEPT ![r] = "done"]
    /\ UNCHANGED <<program, catalog, incoming, us, rules, retracted, writes,
                   topRuleIDs, filtered, arg, res>>

Next ==
    \E r \in Requests :
        \/ GetUserSelections(r)
        \/ ExtractGrules(r)
        \/ BuildRules(r)
        \/ Cycle(r)
        \/ FilterDocumentsByRecommendations(r)

Spec == Init /\ [][Next]_vars

(***************************************************************************)
(* Both revisions of the lambda.                                           *)
(***************************************************************************)
InitPrograms == InitRequest({"part_000", "country"})

NextPrograms ==
    \E r \in Requests :
        \/ GetUserSelections(r)
        \/ ExtractGrules(r)
        \/ BuildRules(r)
        \/ Cycle(r)
        \/ FilterDocumentsByRecommendations(r)
        \/ ReturnAll(r)

SpecPrograms == InitPrograms /\ [][NextPrograms]_vars

(***************************************************************************)
(* Vocabulary of the claims.                                               *)
(***************************************************************************)
\* The rules of request r whose action has run.
FiredRules(r) == {i \in DOMAIN rules[r] : rules[r][i].RuleID \in retracted[r]}

\* How many of the theme names passed to a rule the user selected.
MatchCount(p, themes) ==
    Cardinality({i \in DOMAIN themes :
                    themes[i] \in BoolFields /\ BoolField(p, themes[i])})

\* The score recorded for the rule's document.
ScoreRecorded(r, i) == us[r].Recommendations[rules[r][i].RuleID]

HasScore(r, i) == rules[r][i].RuleID \in DOMAIN us[r].Recommendations

PassCompleted(r) == pc[r] \in {"executed", "done"}

\* The user of request r selected theme k.
UserSelectedTheme(r, k) == \E j \in incoming[r] : ToLower(j) = ToLower(k)

Overlaps(r, document) ==
    \E k \in NonEmptyKeys(document) : UserSelectedTheme(r, k)

(***************************************************************************)
(* C2: after an evaluation pass, a document's RuleID is a key of           *)
(* Recommendations if and only if one of its themes with a non-empty       *)
(* description is selected by the user (theme names compared without       *)
(* regard to case); each such document had exactly one score stored, and   *)
(* the others are absent from the map.                                     *)
(***************************************************************************)
C2_ScoredIffOverlap ==
    \A r \in Requests : PassCompleted(r) =>
        /\ \A i \in DOMAIN catalog :
              /\ catalog[i].RuleID \in DOMAIN us[r].Recommendations
                    <=> Overlaps(r, catalog[i])
              /\ catalog[i].RuleID \in DOMAIN us[r].Recommendations
                    => /\ catalog[i].RuleID \in DOMAIN writes[r]
                       /\ writes[r][catalog[i].RuleID] = 1
        /\ DOMAIN us[r].Recommendations \subseteq {catalog[i].RuleID : i \in DOMAIN catalog}

\* A completed pass that scored one document and left another, which has a
\* theme with a description, out of the map.
C2_Witness ==
    /\ pc[1] = "done"
    /\ \E i, j \in DOMAIN catalog :
          /\ catalog[i].RuleID \in DOMAIN us[1].Recommendations
          /\ catalog[j].RuleID \notin DOMAIN us[1].Recommendations
          /\ NonEmptyKeys(catalog[j]) # {}

ReferencesUnknownTheme(rule) ==
    \E i \in DOMAIN rule.themes : rule.themes[i] \notin BoolFields

(***************************************************************************)
(* C3 as stated: for a document whose theme map is empty or holds only     *)
(* empty descriptions no rule is compiled, the rest of the catalog is      *)
(* compiled and evaluated normally, and its RuleID never enters the score  *)
(* map.                                                                    *)
(***************************************************************************)
C3_NoRuleForEmptyThemes ==
    \A r \in Requests : \A i \in DOMAIN catalog :
        NonEmptyKeys(catalog[i]) = {} =>
            /\ \A j \in DOMAIN rules[r] : rules[r][j].RuleID # catalog[i].RuleID
            /\ catalog[i].RuleID \notin DOMAIN us[r].Recommendations
            /\ pc[r] = "panicked" =>
                  \E j \in DOMAIN rules[r] : ReferencesUnknownTheme(rules[r][j])

(***************************************************************************)
(* C6 as stated: the i-th document handleRequest returns is the document   *)
(* whose RuleID is the i-th element of the top-N result.                   *)
(***************************************************************************)
C6_OutputInSelectorOrder ==
    \A r \in Requests : pc[r] = "done" =>
        /\ Len(out[r]) = Len(topRuleIDs[r])
        /\ \A i \in DOMAIN out[r] : out[r][i].RuleID = topRuleIDs[r][i]

(***************************************************************************)
(* C9 as stated: a rule that references a theme name that is no boolean    *)
(* field of UserSelections does not abort the evaluation pass.             *)
(***************************************************************************)
C9_UnknownThemeNotFatal ==
    \A r \in Requests :
        (\E j \in DOMAIN rules[r] : ReferencesUnknownTheme(rules[r][j]))
          /\ ~BuildFails(rules[r])
            => pc[r] # "panicked"

(***************************************************************************)
(* getTopNRecommendations on its own: any score map, any N >= 0.           *)
(***************************************************************************)
ScoreVals == {18, 19, 38}

ScoreMaps ==
    UNION {[S -> ScoreVals] : S \in SUBSET {IdPool[i] : i \in 1 .. MaxScored}}

InitTopN ==
    /\ Idle
    /\ arg \in {[kind |-> "topN", recommendations |-> m, N |-> n]
                 : m \in ScoreMaps, n \in 0 .. MaxN}
    /\ res = NoHarness

ApplyTopN ==
    /\ res.kind = "none"
    /\ \E ids \in getTopNRecommendations(arg.recommendations, arg.N) :
          res' = [kind |-> "topN", topRuleIDs |-> ids]
    /\ UNCHANGED <<program, catalog, incoming, pc, us, rules, retracted, writes,
                   topRuleIDs, filtered, out, arg>>

SpecTopN == InitTopN /\ [][ApplyTopN]_vars

(***************************************************************************)
(* generateThemeUpdatedDocs on its own: any documents, any preferences;    *)
(* applied once, then once more to its own output.                         *)
(***************************************************************************)
RedactInputs ==
    UNION {{[i \in 1 .. n |-> Document(i, tm[i])] : tm \in [1 .. n -> ThemeMaps]}
           : n \in 0 .. MaxRedactDocs}

InitRedact ==
    /\ Idle
    /\ arg \in {[kind |-> "redact", filteredDocs |-> d,
                 userSelections |-> getUserSelections(inc)]
                 : d \in RedactInputs, inc \in SUBSET InKeyPool}
    /\ res = NoHarness

ApplyRedact ==
    /\ res.kind = "none"
    /\ LET o == generateThemeUpdatedDocs(arg.filteredDocs, arg.userSelections)
       IN  res' = [kind |-> "redact", passes |-> 1, first |-> o, last |-> o]
    /\ UNCHANGED <<program, catalog, incoming, pc, us, rules, retracted, writes,
                   topRuleIDs, filtered, out, arg>>

ApplyRedactAgain ==
    /\ res.kind = "redact"
    /\ res.passes = 1
    /\ res' = [res EXCEPT !.passes = 2,
                          !.last = generateThemeUpdatedDocs(res.last, arg.userSelections)]
    /\ UNCHANGED <<program, catalog, incoming, pc, us, rules, retracted, writes,
                   topRuleIDs, filtered, out, arg>>

NextRedact == ApplyRedact \/ ApplyRedactAgain

SpecRedact == InitRedact /\ [][NextRedact]_vars

Min(a, b) == IF a < b THEN a ELSE b

(***************************************************************************)
(* C4: for every score map and every n >= 0, getTopNRecommendations        *)
(* returns exactly min(n, |scoreMap|) distinct identifiers, all keys of    *)
(* the map: all of them when n exceeds their number, none for an empty map.*)
(***************************************************************************)
C4_TopNCount ==
    res.kind = "topN" =>
        LET ids == res.topRuleIDs
            keys == DOMAIN arg.recommendations
        IN  /\ Len(ids) = Min(arg.N, Cardinality(keys))
            /\ \A i, j \in DOMAIN ids : i # j => ids[i] # ids[j]
            /\ Range(ids) \subseteq keys
            /\ arg.N >= Cardinality(keys) => Range(ids) = keys
            /\ keys = {} => ids = <<>>

\* N exceeds the number of scored documents and all of them are returned.
C4_Witness ==
    /\ res.kind = "topN"
    /\ Cardinality(DOMAIN arg.recommendations) = 2
    /\ arg.N = 3
    /\ Len(res.topRuleIDs) = 2

CatalogIndex(id) == CHOOSE i \in DOMAIN catalog : catalog[i].RuleID = id

(***************************************************************************)
(* C5 as stated: the top-N result is in descending score order and, of two *)
(* documents with equal scores, the one earlier in the catalog comes first.*)
(***************************************************************************)
C5_TiesInCatalogOrder ==
    \A r \in Requests : pc[r] = "done" =>
        \A i, j \in DOMAIN topRuleIDs[r] : i < j =>
            LET si == us[r].Recommendations[topRuleIDs[r][i]]
                sj == us[r].Recommendations[topRuleIDs[r][j]]
            IN  \/ si > sj
                \/ /\ si = sj
                   /\ CatalogIndex(topRuleIDs[r][i]) < CatalogIndex(topRuleIDs[r][j])

RedactorSelected(p, theme) ==
    \E f \in BoolFields : ToLower(f) = ToLower(theme) /\ BoolField(p, f)

(***************************************************************************)
(* C7: the redacted document has the identifier, the metadata and exactly  *)
(* the theme keys of the input; a key's value is the original value if the *)
(* user selected that theme (names compared without regard to case) and    *)
(* the empty string otherwise.                                             *)
(***************************************************************************)
C7_RedactKeepsKeys ==
    (res.kind = "redact" /\ res.passes = 1) =>
        /\ Len(res.first) = Len(arg.filteredDocs)
        /\ \A i \in DOMAIN arg.filteredDocs :
              LET d == arg.filteredDocs[i]
                  o == res.first[i]
              IN  /\ o.RuleID = d.RuleID
                  /\ o.Artist = d.Artist
                  /\ o.Title = d.Title
                  /\ o.LyricQuote = d.LyricQuote
                  /\ o.VideoLink = d.VideoLink
                  /\ DOMAIN o.Themes = DOMAIN d.Themes
                  /\ \A k \in DOMAIN d.Themes :
                        o.Themes[k] = IF RedactorSelected(arg.userSelections, k)
                                      THEN d.Themes[k] ELSE ""

\* A document with a kept and a blanked description, one of them under a
\* key that is not spelled in lower case.
C7_Witness ==
    /\ res.kind = "redact"
    /\ res.passes = 1
    /\ \E i \in DOMAIN arg.filteredDocs :
          /\ F_HeartBreak \in DOMAIN arg.filteredDocs[i].Themes
          /\ res.first[i].Themes[F_HeartBreak] = "x"
          /\ \E k \in DOMAIN arg.filteredDocs[i].Themes :
                arg.filteredDocs[i].Themes[k] = "x" /\ res.first[i].Themes[k] = ""

(***************************************************************************)
(* C8: redaction is idempotent: generateThemeUpdatedDocs applied to its    *)
(* own output, with the same preferences, returns that output.             *)
(***************************************************************************)
C8_RedactIdempotent ==
    (res.kind = "redact" /\ res.passes = 2) => res.last = res.first

\* The second pass ran on an output that holds a kept and a blanked value.
C8_Witness ==
    /\ res.kind = "redact"
    /\ res.passes = 2
    /\ \E i \in DOMAIN res.first :
          \E k, l \in DOMAIN res.first[i].Themes :
              /\ res.first[i].Themes[k] = "x"
              /\ res.first[i].Themes[l] = ""
              /\ arg.filteredDocs[i].Themes[l] = "x"

(***************************************************************************)
(* Several requests at once against the same catalog, each with its own    *)
(* event; their steps interleave in every order.                           *)
(***************************************************************************)
ConcKeyPool == {J_home, J_america}

ConcInKeyPool == {J_home, J_america}

ConcThemeMaps ==
    UNION {[S -> Descs] : S \in {T \in SUBSET ConcKeyPool : Cardinality(T) <= MaxThemes}}

ConcCatalogs ==
    UNION {{[i \in 1 .. n |-> Document(i, tm[i])] : tm \in [1 .. n -> ConcThemeMaps]}
           : n \in 0 .. MaxConcDocs}

InitConc ==
    /\ program = "part_000"
    /\ catalog \in ConcCatalogs
    /\ incoming \in [Requests -> SUBSET ConcInKeyPool]
    /\ pc = [r \in Requests |-> "start"]
    /\ us = [r \in Requests |-> NoUserSelections]
    /\ rules = [r \in Requests |-> <<>>]
    /\ retracted = [r \in Requests |-> {}]
    /\ writes = [r \in Requests |-> EmptyMap]
    /\ topRuleIDs = [r \in Requests |-> <<>>]
    /\ filtered = [r \in Requests |-> <<>>]
    /\ out = [r \in Requests |-> <<>>]
    /\ arg = NoHarness
    /\ res = NoHarness

SpecConc == InitConc /\ [][Next]_vars

\* What request r computes alone: the flags of its event ...
AloneFlags(r) == getUserSelections(incoming[r])

\* ... the themes of a document that these flags select ...
AloneMatches(flags, document) ==
    {k \in NonEmptyKeys(document) :
        /\ capitalizeFirstLetter(k) \in BoolFields
        /\ BoolField(flags, capitalizeFirstLetter(k))}

\* ... and the score of every document with such a theme.
AloneRecommendations(flags) ==
    LET scored == {i \in DOMAIN catalog : AloneMatches(flags, catalog[i]) # {}}
    IN  [id \in {catalog[i].RuleID : i \in scored} |->
            LET i == CHOOSE i \in scored : catalog[i].RuleID = id
                n == Cardinality(NonEmptyKeys(catalog[i]))
                m == Cardinality(AloneMatches(flags, catalog[i]))
            IN  (m * 10) - (n - (m * 10))]

(***************************************************************************)
(* C10: with several requests interleaved, every request's score map and   *)
(* output are what the request would produce alone: at every moment its    *)
(* preference flags are those of its own event, its scores and retracted   *)
(* rules are those of documents its own selection scores, with the scores  *)
(* a run alone gives, and at the end the map is complete and the output is *)
(* the redaction, under its own flags, of the top 3 of its own map.        *)
(***************************************************************************)
C10_RequestsIsolated ==
    \A r \in Requests :
        LET flags == AloneFlags(r)
            alone == AloneRecommendations(flags)
        IN  /\ pc[r] \notin {"idle", "start"} =>
                  [us[r] EXCEPT !.Recommendations = EmptyMap] = flags
            /\ \A id \in DOMAIN us[r].Recommendations :
                  /\ id \in DOMAIN alone
                  /\ us[r].Recommendations[id] = alone[id]
            /\ retracted[r] = DOMAIN us[r].Recommendations
            /\ PassCompleted(r) => us[r].Recommendations = alone
            /\ pc[r] = "done" =>
                  /\ topRuleIDs[r] \in getTopNRecommendations(alone, TopN)
                  /\ out[r] = generateThemeUpdatedDocs(
                                  filterDocuments(catalog, topRuleIDs[r]),
                                  [flags EXCEPT !.Recommendations = alone])

\* Two requests with different selections both finished, with different
\* score maps over the same catalog.
C10_Witness ==
    /\ pc[1] = "done"
    /\ pc[2] = "done"
    /\ incoming[1] # incoming[2]
    /\ us[1].Recommendations # us[2].Recommendations
    /\ us[1].Recommendations # EmptyMap
    /\ us[2].Recommendations # EmptyMap

(***************************************************************************)
(* C11: within one evaluation pass every rule fires at most once: no score *)
(* map entry is ever written twice, and once a rule's action has run and   *)
(* retracted the rule, the rule stays retracted in every later state and   *)
(* neither its entry nor the number of writes to it changes again.         *)
(***************************************************************************)
C11_FiresAtMostOnce ==
    /\ [](\A r \in Requests : \A id \in DOMAIN writes[r] : writes[r][id] <= 1)
    /\ [][\A r \in Requests : \A id \in retracted[r] :
              /\ id \in retracted'[r]
              /\ id \in DOMAIN writes'[r]
              /\ writes'[r][id] = writes[r][id]
              /\ us'[r].Recommendations[id] = us[r].Recommendations[id]]_vars

\* Two rules fired, one after the other, and the pass went on to its end
\* although the condition of both still holds.
C11_Witness ==
    /\ pc[1] = "done"
    /\ Cardinality(FiredRules(1)) = 2
    /\ \A i \in FiredRules(1) :
          /\ Condition(1, i) = "true"
          /\ writes[1][rules[1][i].RuleID] = 1

\* The condition of a rule holds under preferences p: one of its themes is
\* a selected flag and every theme before it names a flag.
ConditionHolds(p, themes) ==
    \E k \in DOMAIN themes :
        /\ themes[k] \in BoolFields
        /\ BoolField(p, themes[k])
        /\ \A j \in 1 .. (k - 1) : themes[j] \in BoolFields

DocumentsWithTheme == {i \in DOMAIN catalog : NonEmptyKeys(catalog[i]) # {}}

ExpectedScores(r) ==
    LET flags == getUserSelections(incoming[r])
        known(i) == \A k \in NonEmptyKeys(catalog[i]) :
                        capitalizeFirstLetter(k) \in BoolFields
        matches(i) == {k \in NonEmptyKeys(catalog[i]) :
                          BoolField(flags, capitalizeFirstLetter(k))}
        scored == {i \in DOMAIN catalog : known(i) /\ matches(i) # {}}
    IN  [id \in {catalog[i].RuleID : i \in scored} |->
            LET i == CHOOSE i \in scored : catalog[i].RuleID = id
                n == Cardinality(NonEmptyKeys(catalog[i]))
                m == Cardinality(matches(i))
            IN  (m * 10) - (n - (m * 10))]

Flags(p) == [p EXCEPT !.Recommendations = EmptyMap]

(***************************************************************************)
(* C13: the final score map does not depend on the order in which the      *)
(* eligible rules fire: whatever rule the engine picks in each cycle, the  *)
(* pass ends with the one score map that the catalog and the event         *)
(* determine; and a rule's action changes only the entry of its own        *)
(* document, never the preference flags or the condition of any rule.      *)
(***************************************************************************)
C13_OrderIndependent ==
    /\ [](\A r \in Requests :
              PassCompleted(r) => us[r].Recommendations = ExpectedScores(r))
    /\ [][\A r \in Requests : pc[r] = "execute" =>
              /\ Flags(us'[r]) = Flags(us[r])
              /\ \A i \in DOMAIN rules[r] : Condition(r, i)' = Condition(r, i)
              /\ \A id \in DOMAIN us'[r].Recommendations :
                    \/ id \in retracted'[r] \ retracted[r]
                    \/ /\ id \in DOMAIN us[r].Recommendations
                       /\ us'[r].Recommendations[id] = us[r].Recommendations[id]]_vars

\* The rule of the second document has fired while the rule of the first is
\* still active with a true condition: the engine did not follow the
\* order of compilation.
C13_Witness ==
    /\ pc[1] = "execute"
    /\ Len(rules[1]) = 2
    /\ retracted[1] = {rules[1][2].RuleID}
    /\ Condition(1, 1) = "true"
    /\ rules[1][1].RuleID \notin DOMAIN us[1].Recommendations

\* The request runs on one goroutine that is never suspended for ever: a
\* step that can be taken is taken.
SpecLive == Init /\ [][Next]_vars /\ WF_vars(Next)

\* Execute has come to an end for request r: it returned, or the request
\* was aborted after the rules were built.
PassEnded(r) ==
    \/ pc[r] \in {"executed", "done"}
    \/ pc[r] = "panicked" /\ ~BuildFails(rules[r])

\* A rule of request r that is both active and has a true condition.
EligibleRules(r) ==
    {i \in DOMAIN rules[r] :
        /\ rules[r][i].RuleID \notin retracted[r]
        /\ ConditionHolds(us[r], rules[r][i].themes)}

\* Every request comes to an end: the pass cannot run for ever, since each
\* cycle retracts a rule, returns or aborts.
C14_RequestEnds == <>(pc[1] \in {"done", "panicked"})

(***************************************************************************)
(* C14 as stated: for every catalog and every preference record, the       *)
(* evaluation pass comes to an end in a state where no rule is both active *)
(* and has a true condition: every rule whose condition holds has fired    *)
(* and been retracted.                                                     *)
(***************************************************************************)
C14_EndsWithNoEligibleRule ==
    \A r \in Requests : PassEnded(r) => EligibleRules(r) = {}

\* The scorer counts theme key k as selected: the name the rule compiler
\* makes of it resolves to a preference flag that is set.
ScorerSelects(p, k) ==
    LET g == GetField(p, capitalizeFirstLetter(k))
    IN  g.err = "" /\ g.val

\* The redactor keeps the value of theme key k of the document.
RedactorKeeps(p, document, k) == updatedThemes(document, p)[k] # ""

(***************************************************************************)
(* C15 as stated: the scorer and the redactor agree on theme identity: for *)
(* every document theme key with a non-empty description the scorer counts *)
(* the theme as selected if and only if the redactor keeps its value, and  *)
(* every document the pipeline returns retains a non-blank theme value.    *)
(***************************************************************************)
C15_ScorerAndRedactorAgree ==
    \A r \in Requests : pc[r] \notin {"idle", "start"} =>
        /\ \A i \in DOMAIN catalog : \A k \in NonEmptyKeys(catalog[i]) :
              ScorerSelects(us[r], k) <=> RedactorKeeps(us[r], catalog[i], k)
        /\ pc[r] = "done" =>
              \A j \in DOMAIN out[r] :
                  \E k \in DOMAIN out[r][j].Themes : out[r][j].Themes[k] # ""

====
